---- MODULE Spec2Model ----
(***************************************************************************)
(* Model of the document-conversion service: the deadline scope            *)
(* (src/common/withTimeout.ts), the conversion invoker behind its          *)
(* admission limiter (src/lib/convert.ts), the scoped workspace            *)
(* (FileTemp.ts, withTemp) and the request handler (src/server.ts).        *)
(***************************************************************************)
EXTENDS Integers, Sequences, FiniteSets, TLC

\* ------------------------------------------------------------------ bounds
\* nesting depth of deadline scopes in the withTimeout specification
NumScopes == 2
\* number of convertFile calls in the queue specification
NumTasks == 4
\* number of convertFile calls in the limiter specification
NumLimited == 3
\* number of requests in the request-handler specification
NumReqs == 1
\* limiter capacity used by the model (process.env.CONCURRENCY_LIMIT)
CONCURRENCY_LIMIT == 2
\* bytes a child writes to one of its output streams
MaxStreamBytes == 2
\* longest file name of a request
MaxNameLen == 3
\* maxBaseLength of buildContentDispositionAttachment
MaxBaseLength == 100
\* number of FileTemp objects in the workspace specification
NumTemps == 2
\* calls of cleanFileOnTmpFolder on one FileTemp object
MaxCleans == 3
\* bytes of the stream given to streamWebToFile
MaxSourceBytes == 2

Scopes == 1..NumScopes
Tasks == 1..NumTasks
Reqs == 1..NumReqs
Temps == 1..NumTemps

VARIABLES
  \* --- withTimeout scopes; scope 1 is outermost, scope w+1 runs inside w
  wpc,        \* "idle" | "active" | "settled"
  wMs,        \* the ms argument: <<>> is undefined, <<n>> the number n
  wAborted,   \* controller.signal.aborted
  wTimedOut,  \* the timedOut flag
  wTimer,     \* "none" | "armed" | "fired" | "cleared"
  wSub,       \* onParentAbort is subscribed to the parent signal
  wOutcome,   \* how the call settled
  extSignal,  \* parentSignal of scope 1: "none" | "live" | "aborted"
  opKind,     \* what the innermost operation does on abort
  opSelf,     \* the innermost operation may complete on its own
  opState,    \* "idle" | "pending" | "settled"
  opSawAbort  \* signal.aborted as seen by the operation's first step

VARIABLES
  \* --- convertFile calls behind the limiter (src/lib/convert.ts)
  tpc,        \* "idle" | "queued" | "slot" | "running" | "check" | "done"
  tOpt,       \* the call's arguments and options
  queue,      \* calls waiting in the limiter, in arrival order
  waited,     \* the call found every slot busy when it arrived
  callerSig,  \* options.signal: "live" | "aborted"
  cAborted,   \* signal.aborted of the scope around the child
  cTimedOut,  \* that scope's timedOut flag
  cTimer,     \* that scope's timer
  cSub,       \* that scope listens to options.signal
  child,      \* "none" | "alive" | "exited" | "closed"
  killed,     \* child.killed
  grace,      \* killTimer: "none" | "armed" | "fired" | "cleared"
  sigSent,    \* signals delivered to the child process
  childStatus,\* how the process ended
  exitInfo,   \* exitCode and exitSignal
  outFile,    \* the child wrote <stem>.<toExt>
  arrived,    \* the chunks the child wrote to stdout and stderr, in order
  captured,   \* the stdout and stderr strings
  res,        \* what the call settled with
  ws,         \* the workspace directory: "none" | "exists" | "gone"
  cleanCalls  \* calls of cleanFileOnTmpFolder on the workspace

wtVars == <<wpc, wMs, wAborted, wTimedOut, wTimer, wSub, wOutcome,
            extSignal, opKind, opSelf, opState, opSawAbort>>

scopeVars == <<cAborted, cTimedOut, cTimer, cSub>>
childVars == <<child, killed, grace, sigSent, childStatus, exitInfo, outFile>>
ioVars == <<arrived, captured>>
taskVars == <<tpc, tOpt, queue, waited, callerSig, res>>
wsVars == <<ws, cleanCalls>>
convVars == <<taskVars, scopeVars, childVars, ioVars, wsVars>>

VARIABLES
  \* --- requests to POST /process (src/server.ts); request r converts
  \* through call r and owns workspace r
  rpc,         \* "idle" | "staging" | "converting" | "uploading" |
               \* "streaming" | "done"
  rIn,         \* the request
  resp,        \* the response returned to the caller
  tempCleaned, \* the tempCleaned flag
  sTimer,      \* the timer of the scope around convertFile
  sTimedOut,   \* that scope's timedOut flag
  staged,      \* how staging ended
  uploaded,    \* how the PUT to uploadUrl ended
  originalName,\* the originalName variable
  streamEv     \* the event that ended the read stream of the response

srvVars == <<rpc, rIn, resp, tempCleaned, sTimer, sTimedOut, staged,
             uploaded, originalName, streamEv>>

VARIABLES
  \* --- the library functions on their own
  built,      \* a call of buildContentDispositionAttachment and its result
  xfer,       \* a call of streamWebToFile
  temps,      \* FileTemp objects
  metrics     \* the value of each counter and gauge of the metrics module

utilVars == <<built, xfer, temps>>
libVars == <<built, xfer, temps, metrics>>

vars == <<wtVars, convVars, srvVars, libVars>>

\* ------------------------------------------------------- withTimeout.ts
NoOutcome == [k |-> "none", by |-> 0]
Value == [k |-> "value", by |-> 0]
OwnError == [k |-> "err", by |-> 0]
AbortError == [k |-> "abort", by |-> 0]
TimeoutError(w) == [k |-> "timeout", by |-> w]
\* the reason the external parent signal was aborted with
ParentReason == [k |-> "reason", by |-> 0]

\* controller.abort(), in onParentAbort and in the timer callback, is called
\* without an argument: the reason of the internal signal is a new
\* AbortError, whatever made the scope abort
ControllerAbort(cause) == AbortError

MsValues == {<<>>, <<-1>>, <<0>>, <<1>>, <<2>>}

\* typeof ms === 'number' && ms > 0
HasTimer(ms) == Len(ms) = 1 /\ ms[1] > 0

\* a scope that did not look at its parent signal when called
NeverInitAborted(hasParent, parentAborted) == FALSE
\* a scope that did not listen to its parent signal
NeverSubscribed(hasParent, parentAborted) == FALSE
\* a finally that left the timer running
KeepTimer(t) == t

\* if (parentSignal.aborted) controller.abort()
InitAborted(hasParent, parentAborted) == hasParent /\ parentAborted

\* else parentSignal.addEventListener('abort', onParentAbort)
InitSubscribed(hasParent, parentAborted) == hasParent /\ ~parentAborted

\* a catch that took every failure for a timeout
CatchAllAsTimeout(w, timedOut, r) ==
  IF r.k = "value" THEN r ELSE TimeoutError(w)

\* catch (err) { if (timedOut) throw new Error('Operation timed out'); throw err }
WtCatch(w, timedOut, r) ==
  IF r.k = "value" THEN r
  ELSE IF timedOut THEN TimeoutError(w) ELSE r

\* finally { if (timer) clearTimeout(timer) }
ClearTimer(t) == IF t = "armed" THEN "cleared" ELSE t

\* controller.abort() of scope w reaches scope v through the chain of
\* onParentAbort subscriptions; aborting an aborted controller does nothing
Reaches(w, v, sub) == v >= w /\ \A u \in (w + 1)..v : sub[u]

AbortFrom(w, ab, sub) ==
  [v \in Scopes |-> ab[v] \/ (~ab[w] /\ Reaches(w, v, sub))]

\* timers fire in order of their delay, equal delays in creation order
TimerDue(w) ==
  /\ wTimer[w] = "armed"
  /\ \A u \in Scopes : wTimer[u] = "armed" /\ u # w =>
       \/ wMs[u][1] > wMs[w][1]
       \/ (wMs[u][1] = wMs[w][1] /\ u > w)

RECURSIVE SettleChain(_, _, _)
\* the outcome of every scope from w outward once scope w's operation
\* settled with r: each scope's result is its caller's operation result
SettleChain(w, r, timedOut) ==
  IF w = 0 THEN [v \in Scopes |-> NoOutcome]
  ELSE LET mine == WtCatch(w, timedOut[w], r)
           rest == SettleChain(w - 1, mine, timedOut)
       IN [v \in Scopes |-> IF v = w THEN mine ELSE rest[v]]

InitWT ==
  /\ wpc = [w \in Scopes |-> "idle"]
  /\ wMs = [w \in Scopes |-> <<>>]
  /\ wAborted = [w \in Scopes |-> FALSE]
  /\ wTimedOut = [w \in Scopes |-> FALSE]
  /\ wTimer = [w \in Scopes |-> "none"]
  /\ wSub = [w \in Scopes |-> FALSE]
  /\ wOutcome = [w \in Scopes |-> NoOutcome]
  /\ extSignal \in {"none", "live", "aborted"}
  /\ opKind \in {"reject", "resolve", "ignore"}
  /\ opSelf \in BOOLEAN
  /\ opState = "idle"
  /\ opSawAbort = FALSE

\* no withTimeout call of the scope specification is made
IdleWT ==
  /\ InitWT
  /\ extSignal = "none"
  /\ opKind = "ignore"
  /\ opSelf = FALSE

\* withTimeout(fn, ms, parentSignal) up to `await fn(controller.signal)`;
\* fn of scope w calls scope w+1 synchronously, the innermost fn starts the
\* operation
WtInvoke ==
  /\ wpc[1] = "idle"
  /\ \E ms \in [Scopes -> MsValues] :
       LET pab == extSignal = "aborted"
           hasP(w) == w > 1 \/ extSignal # "none"
       IN /\ wMs' = ms
          /\ wAborted' = [w \in Scopes |-> InitAborted(hasP(w), pab)]
          /\ wSub' = [w \in Scopes |-> InitSubscribed(hasP(w), pab)]
          /\ wTimer' = [w \in Scopes |->
                          IF HasTimer(ms[w]) THEN "armed" ELSE "none"]
          /\ opSawAbort' = InitAborted(hasP(NumScopes), pab)
  /\ wpc' = [w \in Scopes |-> "active"]
  /\ opState' = "pending"
  /\ UNCHANGED <<wTimedOut, wOutcome, extSignal, opKind, opSelf, convVars, srvVars, libVars>>

\* the external parent signal aborts
ExtAbort ==
  /\ extSignal = "live"
  /\ extSignal' = "aborted"
  /\ wAborted' = IF wSub[1] THEN AbortFrom(1, wAborted, wSub) ELSE wAborted
  /\ UNCHANGED <<wpc, wMs, wTimedOut, wTimer, wSub, wOutcome, opKind,
                 opSelf, opState, opSawAbort, convVars, srvVars, libVars>>

\* setTimeout callback: timedOut = true; controller.abort()
WtTimerFire(w) ==
  /\ TimerDue(w)
  /\ wTimer' = [wTimer EXCEPT ![w] = "fired"]
  /\ wTimedOut' = [wTimedOut EXCEPT ![w] = TRUE]
  /\ wAborted' = AbortFrom(w, wAborted, wSub)
  /\ UNCHANGED <<wpc, wMs, wSub, wOutcome, extSignal, opKind, opSelf,
                 opState, opSawAbort, convVars, srvVars, libVars>>

\* the operation settled with r: every scope's catch and finally run
WtSettle(r) ==
  /\ opState' = "settled"
  /\ wOutcome' = SettleChain(NumScopes, r, wTimedOut)
  /\ wpc' = [w \in Scopes |-> "settled"]
  /\ wTimer' = [w \in Scopes |-> ClearTimer(wTimer[w])]
  /\ wSub' = [w \in Scopes |-> FALSE]
  /\ UNCHANGED <<wMs, wAborted, wTimedOut, extSignal, opKind, opSelf,
                 opSawAbort, convVars, srvVars, libVars>>

\* the operation completes on its own
OpSettleSelf ==
  /\ opState = "pending"
  /\ opSelf
  /\ \E r \in {Value, OwnError} : WtSettle(r)

\* the operation reacts to the abort of its signal
OpReactAbort ==
  /\ opState = "pending"
  /\ wAborted[NumScopes]
  /\ opKind # "ignore"
  /\ WtSettle(IF opKind = "reject" THEN ControllerAbort(ParentReason)
              ELSE Value)

\* ------------------------------------------------------ FileTemp.ts
\* cleanFileOnTmpFolder: if (!this.tempDir) return; rm(tempDir, recursive)
CleanDir(d) == IF d = "none" THEN "none" ELSE "gone"

\* ------------------------------------------------------- lib/convert.ts
Bytes == {"a", "L", "T"}
ByteSeqs(n) == UNION {[1..k -> Bytes] : k \in 1..n}

\* a prefix of well-formed text: "a" is a one-byte character, "L" "T" the
\* two bytes of another
RECURSIVE WellFormed(_)
WellFormed(b) ==
  IF b = <<>> THEN TRUE
  ELSE IF Head(b) = "a" THEN WellFormed(Tail(b))
  ELSE IF Head(b) = "T" THEN FALSE
  ELSE IF Len(b) = 1 THEN TRUE
  ELSE IF b[2] = "T" THEN WellFormed(Tail(Tail(b))) ELSE FALSE

RECURSIVE ChunkToString(_)
\* chunk.toString(): UTF-8 decoding of one chunk; a byte that is no
\* complete character within the chunk becomes U+FFFD
ChunkToString(b) ==
  IF b = <<>> THEN <<>>
  ELSE IF Head(b) = "a" THEN <<"a">> \o ChunkToString(Tail(b))
  ELSE IF Head(b) = "L" /\ Len(b) >= 2 /\ b[2] = "T"
       THEN <<"e9">> \o ChunkToString(Tail(Tail(b)))
  ELSE <<"fffd">> \o ChunkToString(Tail(b))

RECURSIVE Concat(_)
\* the bytes of a sequence of chunks
Concat(chunks) ==
  IF chunks = <<>> THEN <<>> ELSE Head(chunks) \o Concat(Tail(chunks))

\* a handler that put the latest chunk first
CaptureLatestFirst(text, chunk) == ChunkToString(chunk) \o text

\* stdout += s / stderr += s
Capture(text, chunk) == text \o ChunkToString(chunk)

OptionSets ==
  [keepTemp : BOOLEAN, ownTemp : BOOLEAN, isBuf : BOOLEAN,
   hasMs : BOOLEAN, hasSig : BOOLEAN]

\* the calls of the limiter specification: convertFile(buffer, from, to,
\* {keepTemp: true, timeoutMs}), each creating its own workspace
LimitOptions ==
  {o \in OptionSets :
     o.hasMs /\ ~o.hasSig /\ o.keepTemp /\ o.isBuf /\ o.ownTemp}

\* the calls of the queue specification: convertFile(buffer, from, to)
PlainOptions ==
  {o \in OptionSets :
     ~o.hasMs /\ ~o.hasSig /\ ~o.keepTemp /\ o.isBuf /\ o.ownTemp}

\* the call of the request handler: convertFile(inputPath, fromExt, toExt,
\* {temp, keepTemp: true, timeoutMs: conversionTimeout, signal})
ServerOptions ==
  {o \in OptionSets :
     o.hasMs /\ o.hasSig /\ o.keepTemp /\ ~o.isBuf /\ ~o.ownTemp}

NoStatus == [code |-> "null", signal |-> "null"]
NoText == [out |-> <<>>, err |-> <<>>]
NoRes == [kind |-> "none", stdout |-> <<>>, stderr |-> <<>>,
          code |-> "null", signal |-> "null"]

Success(kind) == [NoRes EXCEPT !.kind = kind]
Failure(kind, text, info) ==
  [kind |-> kind, stdout |-> text.out, stderr |-> text.err,
   code |-> info.code, signal |-> info.signal]

\* a convertFile that trusted the exit code before looking for the file
ConvertOutcomeByExitCode(present, keepTemp, readOk, text, info) ==
  IF ~present \/ info.code # "0" THEN Failure("noOutput", text, info)
  ELSE IF keepTemp THEN Success("outputPath")
  ELSE IF readOk THEN Success("convertedFile")
  ELSE Failure("readFailed", text, info)

\* after the process exited: access(outputPath), keepTemp, readFile
ConvertOutcome(present, keepTemp, readOk, text, info) ==
  IF ~present THEN Failure("noOutput", text, info)
  ELSE IF keepTemp THEN Success("outputPath")
  ELSE IF readOk THEN Success("convertedFile")
  ELSE Failure("readFailed", text, info)

\* a convertFile that destroyed the workspace whatever keepTemp says, and
\* one that never did
ConvertAlwaysCleans(keepTemp) == TRUE
ConvertNeverCleans(keepTemp) == FALSE

\* finally { if (!options?.keepTemp) temp.cleanFileOnTmpFolder() }
ConvertCleans(keepTemp) == ~keepTemp

\* a limiter that admitted one call too many
CanStartOneMore(active) == active <= CONCURRENCY_LIMIT
\* a limiter that served the latest call first
LastInLine(q) == q[Len(q)]

\* the limiter: pLimit(CONCURRENCY_LIMIT)
InSlot == {"slot", "running", "check"}
Active == Cardinality({t \in Tasks : tpc[t] \in InSlot})
CanStart(active) == active < CONCURRENCY_LIMIT
NextInLine(q) == Head(q)

\* temp.ready() and writeFile take no I/O when the workspace is passed in
\* ready and the input is a path: the child is spawned in the turn in which
\* the slot is obtained
QuickPrepare(o) == ~o.ownTemp /\ ~o.isBuf

\* a kill that reached a process that has ended
KillDeliversLate(c) == c \in {"alive", "exited"}

\* child.kill(sig): the signal is delivered while the process runs, and
\* child.killed is set once a signal was delivered
KillDelivers(c) == c = "alive"
KillSent(c, sent, sig) == IF KillDelivers(c) THEN sent \cup {sig} ELSE sent
KillFlag(c, k) == k \/ KillDelivers(c)

\* if (!child.killed) child.kill(sig)
GuardedKill(c, k) == ~k /\ KillDelivers(c)

\* a task that settled as soon as its scope was over
SettlesWhileRunning(c) == c \in {"alive", "exited"}

\* the convertFile task settles only when the child closed
SettlesOnClose(c) == c = "exited"

InitConv ==
  /\ tpc = [t \in Tasks |-> "idle"]
  /\ tOpt = [t \in Tasks |-> [keepTemp |-> FALSE, ownTemp |-> FALSE,
                              isBuf |-> FALSE, hasMs |-> FALSE,
                              hasSig |-> FALSE]]
  /\ queue = <<>>
  /\ waited = [t \in Tasks |-> FALSE]
  /\ callerSig = [t \in Tasks |-> "live"]
  /\ cAborted = [t \in Tasks |-> FALSE]
  /\ cTimedOut = [t \in Tasks |-> FALSE]
  /\ cTimer = [t \in Tasks |-> "none"]
  /\ cSub = [t \in Tasks |-> FALSE]
  /\ child = [t \in Tasks |-> "none"]
  /\ killed = [t \in Tasks |-> FALSE]
  /\ grace = [t \in Tasks |-> "none"]
  /\ sigSent = [t \in Tasks |-> {}]
  /\ childStatus = [t \in Tasks |-> NoStatus]
  /\ exitInfo = [t \in Tasks |-> NoStatus]
  /\ outFile = [t \in Tasks |-> FALSE]
  /\ arrived = [t \in Tasks |-> NoText]
  /\ captured = [t \in Tasks |-> NoText]
  /\ res = [t \in Tasks |-> NoRes]
  /\ ws = [t \in Tasks |-> "none"]
  /\ cleanCalls = [t \in Tasks |-> 0]

\* convertFile(documentOrPath, fromExt, toExt, options): limit(async ...)
Enqueue(t, opts) ==
  /\ tpc[t] = "idle"
  /\ \E o \in opts :
       /\ tOpt' = [tOpt EXCEPT ![t] = o]
       /\ ws' = [ws EXCEPT ![t] = IF o.ownTemp THEN "none" ELSE "exists"]
  /\ tpc' = [tpc EXCEPT ![t] = "queued"]
  /\ queue' = Append(queue, t)
  /\ waited' = [waited EXCEPT ![t] = ~CanStart(Active)]
  /\ UNCHANGED <<callerSig, res, scopeVars, childVars, ioVars, cleanCalls>>

\* a direct caller; calls are numbered in the order in which they are made
CallConvert(t, opts) ==
  /\ \A u \in Tasks : u < t => tpc[u] # "idle"
  /\ Enqueue(t, opts)
  /\ UNCHANGED <<wtVars, srvVars, libVars>>

\* the task settles: the finally of convertFile runs and the slot is free
Settle(t, r) ==
  /\ tpc' = [tpc EXCEPT ![t] = "done"]
  /\ res' = [res EXCEPT ![t] = r]
  /\ IF ConvertCleans(tOpt[t].keepTemp)
     THEN /\ ws' = [ws EXCEPT ![t] = CleanDir(@)]
          /\ cleanCalls' = [cleanCalls EXCEPT ![t] = @ + 1]
     ELSE UNCHANGED <<ws, cleanCalls>>

\* onAbort: SIGTERM unless child.killed, then the grace timer
OnAbort(t) ==
  /\ sigSent' = [sigSent EXCEPT ![t] =
                   IF GuardedKill(child[t], killed[t])
                   THEN KillSent(child[t], @, "SIGTERM") ELSE @]
  /\ killed' = [killed EXCEPT ![t] =
                  IF GuardedKill(child[t], @) THEN KillFlag(child[t], @)
                  ELSE @]
  /\ grace' = [grace EXCEPT ![t] = "armed"]

\* temp.ready(), writeFile, then withTimeout(fn, timeoutMs, signal) up to
\* the await of the child's close
DoSpawn(t) ==
  LET o == tOpt[t]
      pab == callerSig[t] = "aborted"
  IN \E wrote \in (IF o.isBuf THEN BOOLEAN ELSE {TRUE}), ok \in BOOLEAN :
       IF wrote /\ ok
       THEN /\ tpc' = [tpc EXCEPT ![t] = "running"]
            /\ ws' = [ws EXCEPT ![t] = "exists"]
            /\ cAborted' = [cAborted EXCEPT ![t] = InitAborted(o.hasSig, pab)]
            /\ cSub' = [cSub EXCEPT ![t] = InitSubscribed(o.hasSig, pab)]
            /\ cTimer' = [cTimer EXCEPT ![t] =
                            IF o.hasMs THEN "armed" ELSE "none"]
            /\ child' = [child EXCEPT ![t] = "alive"]
            /\ UNCHANGED <<res, cleanCalls, cTimedOut, killed, grace, sigSent,
                           childStatus, exitInfo, outFile>>
       ELSE \* writeFile failed, or the child's 'error' event: spawn failed
            /\ tpc' = [tpc EXCEPT ![t] = "done"]
            /\ res' = [res EXCEPT ![t] =
                         Failure(IF wrote THEN "spawnError" ELSE "writeError",
                                 NoText, NoStatus)]
            /\ IF ConvertCleans(o.keepTemp)
               THEN /\ ws' = [ws EXCEPT ![t] = "gone"]
                    /\ cleanCalls' = [cleanCalls EXCEPT ![t] = @ + 1]
               ELSE /\ ws' = [ws EXCEPT ![t] = "exists"]
                    /\ UNCHANGED cleanCalls
            /\ UNCHANGED <<scopeVars, childVars>>

\* the limiter starts the call at the head of its queue
LimitStart ==
  /\ queue # <<>>
  /\ CanStart(Active)
  /\ LET t == NextInLine(queue)
     IN /\ queue' = SelectSeq(queue, LAMBDA u : u # t)
        /\ IF QuickPrepare(tOpt[t])
           THEN DoSpawn(t)
           ELSE /\ tpc' = [tpc EXCEPT ![t] = "slot"]
                /\ UNCHANGED <<res, wsVars, scopeVars, childVars>>
  /\ UNCHANGED <<tOpt, waited, callerSig, ioVars, wtVars, srvVars, libVars>>

\* the workspace is ready and the input written: the child is spawned
TaskSpawn(t) ==
  /\ tpc[t] = "slot"
  /\ DoSpawn(t)
  /\ UNCHANGED <<tOpt, queue, waited, callerSig, ioVars, wtVars, srvVars, libVars>>

\* the caller's signal aborts
SignalAborts(t) ==
  /\ callerSig[t] = "live"
  /\ callerSig' = [callerSig EXCEPT ![t] = "aborted"]
  /\ IF cSub[t] /\ ~cAborted[t]
     THEN /\ cAborted' = [cAborted EXCEPT ![t] = TRUE]
          /\ OnAbort(t)
     ELSE UNCHANGED <<cAborted, killed, grace, sigSent>>
  /\ UNCHANGED <<tpc, tOpt, queue, waited, res, cTimedOut, cTimer, cSub,
                 child, childStatus, exitInfo, outFile, ioVars, wsVars>>

CallerAbort(t) ==
  /\ tpc[t] \in {"queued", "slot", "running"}
  /\ tOpt[t].hasSig
  /\ SignalAborts(t)
  /\ UNCHANGED <<wtVars, srvVars, libVars>>

\* the request handler arms its timer, of the same delay, before the call:
\* it expires first
InnerTimerDue(t) == t \in Reqs => sTimer[t] # "armed"

\* the timer of the scope around the child expires
ConvTimerFire(t) ==
  /\ cTimer[t] = "armed"
  /\ InnerTimerDue(t)
  /\ cTimer' = [cTimer EXCEPT ![t] = "fired"]
  /\ cTimedOut' = [cTimedOut EXCEPT ![t] = TRUE]
  /\ IF ~cAborted[t]
     THEN /\ cAborted' = [cAborted EXCEPT ![t] = TRUE]
          /\ OnAbort(t)
     ELSE UNCHANGED <<cAborted, killed, grace, sigSent>>
  /\ UNCHANGED <<taskVars, cSub, child, childStatus, exitInfo, outFile,
                 ioVars, wsVars, wtVars, srvVars, libVars>>

\* killTimer expires: SIGKILL unless child.killed
GraceFire(t) ==
  /\ grace[t] = "armed"
  /\ grace' = [grace EXCEPT ![t] = "fired"]
  /\ sigSent' = [sigSent EXCEPT ![t] =
                   IF GuardedKill(child[t], killed[t])
                   THEN KillSent(child[t], @, "SIGKILL") ELSE @]
  /\ killed' = [killed EXCEPT ![t] =
                  IF GuardedKill(child[t], @) THEN KillFlag(child[t], @)
                  ELSE @]
  /\ UNCHANGED <<taskVars, scopeVars, child, childStatus, exitInfo, outFile,
                 ioVars, wsVars, wtVars, srvVars, libVars>>

\* the child writes a chunk to stdout or stderr: the 'data' handlers
ChildData(t) ==
  /\ child[t] \in {"alive", "exited"}
  /\ \E s \in {"out", "err"}, chunk \in ByteSeqs(MaxStreamBytes) :
       /\ Len(Concat(arrived[t].out)) + Len(Concat(arrived[t].err))
            + Len(chunk)
            <= MaxStreamBytes
       /\ WellFormed(Concat(arrived[t][s]) \o chunk)
       /\ arrived' = [arrived EXCEPT ![t][s] = Append(@, chunk)]
       /\ captured' = [captured EXCEPT ![t][s] = Capture(@, chunk)]
  /\ UNCHANGED <<taskVars, scopeVars, childVars, wsVars, wtVars, srvVars, libVars>>

\* how a process can end: on its own with an exit code, or by a signal
\* that was delivered to it; with or without having written its output
OwnExits == {[code |-> c, signal |-> "null"] : c \in {"0", "1"}}
SignalExits(sent) == {[code |-> "null", signal |-> s] : s \in sent}
AnyEnd == [status : OwnExits \cup SignalExits({"SIGTERM", "SIGKILL"}),
           out : BOOLEAN]
\* the ends of the limiter specification's children: success, or death by
\* signal before the output is written
PlainEnd == {e \in AnyEnd : e.out = (e.status.code = "0")
                              /\ e.status.code # "1"}

\* the ends of the request specification's children: the output is written
\* exactly by the processes that exit with code 0
ServerEnd == {e \in AnyEnd : e.out = (e.status.code = "0")}

\* the process ends, on its own or by a delivered signal: the 'exit'
\* handler clears the grace timer
ChildExit(t, ends) ==
  /\ child[t] = "alive"
  /\ child' = [child EXCEPT ![t] = "exited"]
  /\ \E e \in ends :
       /\ e.status \in OwnExits \cup SignalExits(sigSent[t])
       /\ childStatus' = [childStatus EXCEPT ![t] = e.status]
       /\ outFile' = [outFile EXCEPT ![t] = e.out]
  /\ grace' = [grace EXCEPT ![t] = ClearTimer(@)]
  /\ UNCHANGED <<taskVars, scopeVars, killed, sigSent, exitInfo, ioVars,
                 wsVars, wtVars, srvVars, libVars>>

\* 'close': exitCode and exitSignal are recorded, fn resolves and the
\* scope's finally clears its timer and its subscription
ChildClose(t) ==
  /\ tpc[t] = "running"
  /\ SettlesOnClose(child[t])
  /\ child' = [child EXCEPT ![t] = IF @ = "exited" THEN "closed" ELSE @]
  /\ exitInfo' = [exitInfo EXCEPT ![t] = childStatus[t]]
  /\ cTimer' = [cTimer EXCEPT ![t] = ClearTimer(@)]
  /\ cSub' = [cSub EXCEPT ![t] = FALSE]
  /\ tpc' = [tpc EXCEPT ![t] = "check"]
  /\ UNCHANGED <<tOpt, queue, waited, callerSig, res, cAborted, cTimedOut,
                 killed, grace, sigSent, childStatus, outFile, ioVars,
                 wsVars, wtVars, srvVars, libVars>>

\* access(outputPath), readFile, and the finally of convertFile
TaskFinish(t) ==
  /\ tpc[t] = "check"
  /\ \E readOk \in BOOLEAN :
       Settle(t, ConvertOutcome(outFile[t] /\ ws[t] = "exists",
                                tOpt[t].keepTemp, readOk, captured[t],
                                exitInfo[t]))
  /\ UNCHANGED <<tOpt, queue, waited, callerSig, scopeVars, childVars,
                 ioVars, wtVars, srvVars, libVars>>

ConvSteps ==
  \/ LimitStart
  \/ \E t \in Tasks : ConvTimerFire(t)
  \/ \E t \in Tasks : GraceFire(t)
  \/ \E t \in Tasks : ChildClose(t)
  \/ \E t \in Tasks : TaskFinish(t)

\* one convertFile call with any options, its caller's signal and the
\* child's output
NextConv ==
  \/ CallConvert(1, OptionSets)
  \/ CallerAbort(1)
  \/ ChildData(1)
  \/ ChildExit(1, AnyEnd)
  \/ TaskSpawn(1)
  \/ ConvSteps

\* NumLimited concurrent calls under a deadline behind the limiter
NextLimit ==
  \/ \E t \in 1..NumLimited : CallConvert(t, LimitOptions)
  \/ \E t \in Tasks : ChildExit(t, PlainEnd)
  \/ \E t \in Tasks : TaskSpawn(t)
  \/ ConvSteps

\* NumTasks concurrent calls without deadline behind the limiter
NextQueue ==
  \/ \E t \in Tasks : CallConvert(t, PlainOptions)
  \/ \E t \in Tasks : ChildExit(t, PlainEnd)
  \/ \E t \in Tasks : TaskSpawn(t)
  \/ LimitStart
  \/ \E t \in Tasks : ChildClose(t)
  \/ \E t \in Tasks : TaskFinish(t)

\* ---------------------------------------------------- common/filename.ts
\* characters of a name: a letter, the dot, the slash, the double quote, the
\* space, and the extensions "pdf" and "odt" taken as one sign each
NameChars == {"a", ".", "/", "q", " ", "pdf"}
Names == UNION {[1..k -> NameChars] : k \in 0..MaxNameLen}

EndsWith(s, suffix) ==
  /\ Len(suffix) <= Len(s)
  /\ SubSeq(s, Len(s) - Len(suffix) + 1, Len(s)) = suffix

\* the index of the last x in s, 0 when there is none
LastIndexOf(s, x) ==
  IF \E i \in 1..Len(s) : s[i] = x
  THEN CHOOSE i \in 1..Len(s) :
         s[i] = x /\ \A j \in (i + 1)..Len(s) : s[j] # x
  ELSE 0

RECURSIVE DropTrailingSlashes(_)
DropTrailingSlashes(p) ==
  IF p # <<>> /\ p[Len(p)] = "/"
  THEN DropTrailingSlashes(SubSeq(p, 1, Len(p) - 1))
  ELSE p

\* path.basename(p)
Basename(p) ==
  LET q == DropTrailingSlashes(p)
  IN SubSeq(q, LastIndexOf(q, "/") + 1, Len(q))

\* path.extname(p): from the last dot of the last segment, unless that dot
\* is its first character or the segment is ".."
Extname(p) ==
  LET b == Basename(p)
      d == LastIndexOf(b, ".")
  IN IF d <= 1 THEN <<>>
     ELSE IF b = <<".", ".">> THEN <<>>
     ELSE SubSeq(b, d, Len(b))

\* path.basename(p, ext): the suffix is removed from the last segment unless
\* it is the whole segment; a path equal to the suffix gives the empty name
BasenameExt(p, ext) ==
  LET b == Basename(p)
  IN IF ext = <<>> \/ Len(ext) > Len(p) THEN b
     ELSE IF p = ext THEN <<>>
     ELSE IF EndsWith(b, ext) /\ Len(b) > Len(ext)
          THEN SubSeq(b, 1, Len(b) - Len(ext))
     ELSE b

\* control and problematic characters become an underscore
SafeChar(c) == IF c \in {"q", "/"} THEN "_" ELSE c

RECURSIVE Trim(_)
\* String.prototype.trim
Trim(s) ==
  IF s = <<>> THEN s
  ELSE IF Head(s) = " " THEN Trim(Tail(s))
  ELSE IF s[Len(s)] = " " THEN Trim(SubSeq(s, 1, Len(s) - 1))
  ELSE s

sanitizeFilename(name, maxLength) ==
  IF name = <<>> THEN <<"file">>
  ELSE LET b == Basename(name)
           r == Trim([i \in 1..Len(b) |-> SafeChar(b[i])])
           c == IF Len(r) > maxLength THEN SubSeq(r, 1, maxLength) ELSE r
       IN IF c = <<>> THEN <<"file">> ELSE c

\* ext.startsWith('.') ? ext.slice(1) : ext
CleanExt(ext) == IF ext # <<>> /\ Head(ext) = "." THEN Tail(ext) ELSE ext

\* the filename of buildContentDispositionAttachment(originalName, ext,
\* maxBaseLength); ext is a sequence: <<"pdf">>, or <<".", "pdf">> with the
\* leading dot
DispositionFilenameOf(name, ext, maxBaseLength) ==
  LET cleanExt == CleanExt(ext)
      own == Extname(name)
      base == BasenameExt(name,
                          IF own # <<>> THEN own ELSE <<".">> \o cleanExt)
      safeBase == sanitizeFilename(base, maxBaseLength)
  IN IF cleanExt # <<>> THEN safeBase \o <<".">> \o cleanExt ELSE safeBase

\* the same with the default maxBaseLength
DispositionFilename(name, ext) ==
  DispositionFilenameOf(name, ext, MaxBaseLength)

\* encodeURIComponent, sign by sign
UriSign(c) == IF c = " " THEN "%20" ELSE IF c = "q" THEN "%22"
              ELSE IF c = "/" THEN "%2F" ELSE c
encodeURIComponent(s) == [i \in 1..Len(s) |-> UriSign(s[i])]

\* attachment; filename="..."; filename*=UTF-8''...
buildContentDispositionAttachment(name, ext) ==
  LET filename == DispositionFilename(name, ext)
  IN [filename |-> filename, filenameStar |-> encodeURIComponent(filename)]

\* the target format strings given to the function, and the values of
\* maxBaseLength
Exts == {<<"pdf">>, <<".", "pdf">>, <<"odt">>, <<>>, <<"q", "pdf">>,
         <<"a", "/">>}
BaseLengths == {1, 2, MaxBaseLength}

NoBuilt == [k |-> "none", name |-> <<>>, ext |-> <<>>, max |-> 0,
            filename |-> <<>>, filenameStar |-> <<>>]

\* one call of buildContentDispositionAttachment
BuildHeader ==
  /\ built.k = "none"
  /\ \E n \in Names, e \in Exts, mx \in BaseLengths :
       LET filename == DispositionFilenameOf(n, e, mx)
       IN built' = [k |-> "built", name |-> n, ext |-> e, max |-> mx,
                    filename |-> filename,
                    filenameStar |-> encodeURIComponent(filename)]
  /\ UNCHANGED <<xfer, temps, wtVars, convVars, srvVars, metrics>>

\* ------------------------------------------------------------- stream.ts
\* the ways the source delivers its bytes: sequences of non-empty chunks
Chunkings ==
  {c \in UNION {[1..k -> ByteSeqs(MaxSourceBytes)] : k \in 0..MaxSourceBytes} :
     Len(Concat(c)) <= MaxSourceBytes}

\* what the file at path held before the call
OldFiles == {<<>>, <<"a">>}

\* a write stream that kept what the file held
OpenForAppend(old) == old
\* createWriteStream(path): flags 'w', the file is created or truncated
OpenForWrite(old) == <<>>

\* a pipeline that did not listen to the signal
PipelineDeaf(given) == FALSE
\* pipeline(nodeReadable, ws, { signal }): the signal aborts the transfer
\* if one was given
PipelineHeeds(given) == given

NoXfer == [pc |-> "idle", given |-> FALSE, aborted |-> FALSE,
           original |-> <<>>, left |-> <<>>, buf |-> <<>>, old |-> <<>>,
           file |-> <<>>, closed |-> FALSE, err |-> "none", cut |-> FALSE]

\* streamWebToFile(stream, path, options) is called
StreamCall ==
  /\ xfer.pc = "idle"
  /\ \E c \in Chunkings, g \in BOOLEAN, hasStream \in BOOLEAN,
        old \in OldFiles :
       xfer' = IF ~hasStream
               THEN [xfer EXCEPT !.pc = "failed", !.old = old, !.file = old,
                                 !.err = "No stream provided"]
               ELSE [xfer EXCEPT !.pc = "piping", !.given = g,
                                 !.original = c, !.left = c, !.old = old,
                                 !.file = OpenForWrite(old)]
  /\ UNCHANGED <<built, temps, wtVars, convVars, srvVars, metrics>>

\* the readable hands its next chunk to the write stream
StreamRead ==
  /\ xfer.pc = "piping"
  /\ xfer.left # <<>>
  /\ xfer' = [xfer EXCEPT !.buf = Append(@, Head(xfer.left)),
                          !.left = Tail(@)]
  /\ UNCHANGED <<built, temps, wtVars, convVars, srvVars, metrics>>

\* the write stream writes its oldest buffered chunk to the file
StreamFlush ==
  /\ xfer.pc = "piping"
  /\ xfer.buf # <<>>
  /\ xfer' = [xfer EXCEPT !.file = @ \o Head(xfer.buf), !.buf = Tail(@)]
  /\ UNCHANGED <<built, temps, wtVars, convVars, srvVars, metrics>>

\* the source ended and everything was written: pipeline resolves, and the
\* finally block destroys the write stream
StreamFinish ==
  /\ xfer.pc = "piping"
  /\ xfer.left = <<>>
  /\ xfer.buf = <<>>
  /\ xfer' = [xfer EXCEPT !.pc = "done", !.closed = TRUE]
  /\ UNCHANGED <<built, temps, wtVars, convVars, srvVars, metrics>>

\* the source or the write fails: pipeline rejects, the finally block
\* destroys the write stream
StreamError ==
  /\ xfer.pc = "piping"
  /\ xfer' = [xfer EXCEPT !.pc = "failed", !.closed = TRUE, !.buf = <<>>,
                          !.err = "ioError"]
  /\ UNCHANGED <<built, temps, wtVars, convVars, srvVars, metrics>>

\* the caller's signal aborts
StreamAbort ==
  /\ ~xfer.aborted
  /\ xfer.pc = "piping"
  /\ xfer' = IF PipelineHeeds(xfer.given)
             THEN [xfer EXCEPT !.aborted = TRUE, !.cut = TRUE,
                               !.pc = "failed", !.closed = TRUE,
                               !.buf = <<>>, !.err = "AbortError"]
             ELSE [xfer EXCEPT !.aborted = TRUE, !.cut = xfer.given]
  /\ UNCHANGED <<built, temps, wtVars, convVars, srvVars, metrics>>

NextStream ==
  \/ StreamCall
  \/ StreamRead
  \/ StreamFlush
  \/ StreamFinish
  \/ StreamError
  \/ StreamAbort

\* ----------------------------------------------------------- FileTemp.ts
NewTemp == [ready |-> "pending", tempDir |-> "", dir |-> "none",
            removable |-> TRUE, calls |-> 0, raised |-> FALSE,
            wt |-> "none", keep |-> FALSE, passed |-> FALSE,
            cbThrew |-> FALSE]

\* rm(tempDir, { recursive: true, force: true }): a missing directory is no
\* error, a directory that cannot be removed is
Rm(dir, removable) ==
  IF dir = "exists" /\ ~removable THEN [dir |-> dir, threw |-> TRUE]
  ELSE [dir |-> CleanDir(dir), threw |-> FALSE]

\* a cleanFileOnTmpFolder that let the error of rm through
Rethrows(threw) == threw
\* try { await rm(...) } catch {}
CatchAll(threw) == FALSE

\* cleanFileOnTmpFolder on one FileTemp object
cleanFileOnTmpFolder(tmp) ==
  IF tmp.tempDir = "" THEN [tmp EXCEPT !.calls = @ + 1]
  ELSE LET o == Rm(tmp.dir, tmp.removable)
       IN [tmp EXCEPT !.dir = o.dir, !.calls = @ + 1,
                      !.raised = @ \/ CatchAll(o.threw)]

\* init() settles: mkdtemp made the directory, under the base directory or
\* under the fallback, or both attempts failed
TempInit(t) ==
  /\ temps[t].ready = "pending"
  /\ \E ok \in BOOLEAN, rem \in BOOLEAN :
       temps' = [temps EXCEPT ![t] =
                   IF ok THEN [@ EXCEPT !.ready = "resolved",
                                        !.tempDir = "tmpdir",
                                        !.dir = "exists", !.removable = rem]
                   ELSE [@ EXCEPT !.ready = "rejected"]]
  /\ UNCHANGED <<built, xfer, wtVars, convVars, srvVars, metrics>>

\* a call of cleanFileOnTmpFolder
TempClean(t) ==
  /\ temps[t].calls < MaxCleans
  /\ temps' = [temps EXCEPT ![t] = cleanFileOnTmpFolder(@)]
  /\ UNCHANGED <<built, xfer, wtVars, convVars, srvVars, metrics>>

NextTemp == \E t \in Temps : TempInit(t) \/ TempClean(t)

\* a withTemp that destroyed the workspace whatever keepTemp says, and one
\* that never did
WithTempAlwaysCleans(keepTemp) == TRUE
WithTempNeverCleans(keepTemp) == FALSE

\* withTemp: finally { if (!options?.keepTemp) temp.cleanFileOnTmpFolder() }
WithTempCleans(keepTemp) == ~keepTemp

\* withTemp(maybeTemp, fn, options) is called: with a FileTemp of the
\* caller's, in any state, or with none, and then constructs one
WithTempCall(t) ==
  /\ temps[t].wt = "none"
  /\ \E keep \in BOOLEAN,
        passed \in (IF temps[t].ready = "pending" /\ temps[t].calls = 0
                    THEN BOOLEAN ELSE {TRUE}) :
       temps' = [temps EXCEPT ![t] = [@ EXCEPT !.wt = "waiting",
                                               !.keep = keep,
                                               !.passed = passed]]
  /\ UNCHANGED <<built, xfer, wtVars, convVars, srvVars, metrics>>

\* await temp.ready(): fn is entered, or the rejection of init leaves
\* withTemp before its try block
WithTempReady(t) ==
  /\ temps[t].wt = "waiting"
  /\ temps[t].ready # "pending"
  /\ temps' = [temps EXCEPT ![t] =
                 IF @.ready = "resolved" THEN [@ EXCEPT !.wt = "callback"]
                 ELSE [@ EXCEPT !.wt = "left", !.cbThrew = TRUE]]
  /\ UNCHANGED <<built, xfer, wtVars, convVars, srvVars, metrics>>

\* fn returns or throws: the finally block
WithTempLeave(t) ==
  /\ temps[t].wt = "callback"
  /\ \E threw \in BOOLEAN :
       LET left == [temps[t] EXCEPT !.wt = "left", !.cbThrew = threw]
       IN temps' = [temps EXCEPT ![t] =
                      IF WithTempCleans(left.keep)
                      THEN cleanFileOnTmpFolder(left) ELSE left]
  /\ UNCHANGED <<built, xfer, wtVars, convVars, srvVars, metrics>>

\* one withTemp call on one FileTemp object, which its owner may clean at
\* any time
NextWithTemp ==
  \/ WithTempCall(1)
  \/ WithTempReady(1)
  \/ WithTempLeave(1)
  \/ TempInit(1)
  \/ TempClean(1)

InitLib ==
  /\ built = NoBuilt
  /\ xfer = NoXfer
  /\ temps = [t \in Temps |-> NewTemp]

\* ------------------------------------------------------------ server.ts
\* the to tag as sent: "pdf", ".pdf" or "odt"
Tags == {<<"pdf">>, <<".", "pdf">>, <<"odt">>}

\* requests to POST /process
Routed ==
  {in \in [method : {"POST"}, pathname : {"/process"},
           mode : {"multipart", "json", "other"},
           hasInput : BOOLEAN,   \* the file field / downloadUrl
           hasTags : BOOLEAN,    \* from and to
           to : Tags,
           download : BOOLEAN,   \* ?download
           upload : BOOLEAN] :   \* uploadUrl in the query, form or body
     ~in.hasTags => in.to = <<"pdf">>}

\* other requests: GET /metrics, GET /process, and the request the README
\* documents, POST /convert with a multipart body of file, from and to
Unrouted ==
  {[method |-> "GET", pathname |-> "/metrics", mode |-> "other",
    hasInput |-> FALSE, hasTags |-> FALSE, to |-> <<"pdf">>,
    download |-> FALSE, upload |-> FALSE],
   [method |-> "GET", pathname |-> "/process", mode |-> "other",
    hasInput |-> FALSE, hasTags |-> FALSE, to |-> <<"pdf">>,
    download |-> FALSE, upload |-> FALSE],
   [method |-> "POST", pathname |-> "/convert", mode |-> "multipart",
    hasInput |-> TRUE, hasTags |-> TRUE, to |-> <<"pdf">>,
    download |-> FALSE, upload |-> FALSE]}

ReqInputs == Routed \cup Unrouted

\* requests whose to tag is "pdf"
PlainInputs == {in \in ReqInputs : in.to = <<"pdf">>}
\* an upload without a file name
NoName == {<<>>}
\* the last segment of a URL path holds no slash, quote or space
UrlNames == {n \in Names : \A i \in 1..Len(n) : n[i] \notin {"/", "q", " "}}

NoInput == [method |-> "POST", pathname |-> "/process", mode |-> "other", hasInput |-> FALSE, hasTags |-> FALSE,
            to |-> <<"pdf">>, download |-> FALSE, upload |-> FALSE]
NoDisposition == [filename |-> <<>>, filenameStar |-> <<>>]
NoResp == [status |-> 0, ctype |-> "none", disp |-> NoDisposition,
           kind |-> "none", keys |-> {}, error |-> "none",
           details |-> "none", content |-> <<>>, headers |-> {}]

\* new Response(JSON.stringify({error, details}), {status})
Resp(status, error, details) ==
  [NoResp EXCEPT !.status = status, !.ctype = "application/json",
                 !.kind = "json", !.error = error, !.details = details,
                 !.headers = {"content-type"},
                 !.keys = IF details = "none" THEN {"error"}
                          ELSE {"error", "details"}]

badRequest(message) == Resp(400, message, "none")

\* new Response('Not Found', { status: 404 })
NotFound ==
  [NoResp EXCEPT !.status = 404, !.ctype = "text/plain;charset=UTF-8",
                 !.kind = "text", !.content = <<"Not Found">>,
                 !.headers = {"content-type"}]

\* the two checks at the head of fetch
IsRouted(method, pathname) ==
  IF method = "GET" /\ pathname = "/metrics" THEN FALSE
  ELSE IF method # "POST" THEN FALSE
  ELSE pathname = "/process"

\* ------------------------------------------------------------- metrics
MetricNames == {"api_requests_total", "api_requests_in_flight",
                "conversions_in_flight", "conversion_success_total",
                "conversion_failure_total"}

\* const ENABLED: METRICS_PUSHGATEWAY_URL and METRICS_JOB_NAME are set
MetricsEnabled == TRUE

\* Counter.inc(1)
counterInc(mt, name) ==
  IF ~MetricsEnabled THEN mt ELSE [mt EXCEPT ![name] = @ + 1]
\* Gauge.inc(1)
gaugeInc(mt, name) ==
  IF ~MetricsEnabled THEN mt ELSE [mt EXCEPT ![name] = @ + 1]
\* Gauge.dec(1)
gaugeDec(mt, name) ==
  IF ~MetricsEnabled THEN mt ELSE [mt EXCEPT ![name] = @ - 1]

\* the two metrics calls after the routing checks
CountedIn(mt) ==
  gaugeInc(counterInc(mt, "api_requests_total"), "api_requests_in_flight")

\* the finally block of fetch, which every return passes
HandlerFinally(mt) == gaugeDec(mt, "api_requests_in_flight")

\* a handler that counted every settled conversion as a success
AlwaysSuccess(returned) == "conversion_success_total"

\* the counter after withTimeout(convertFile): the try block's or the
\* catch block's
ConversionCounter(returned) ==
  IF returned THEN "conversion_success_total"
  ELSE "conversion_failure_total"

\* try { ... } catch { ... } finally { gaugeDec('conversions_in_flight') }
ConversionLeft(mt, returned) ==
  gaugeDec(counterInc(mt, ConversionCounter(returned)),
           "conversions_in_flight")

\* a response that was always sent as a byte stream
ContentTypeOctet(to) == "application/octet-stream"

\* to === 'pdf' ? 'application/pdf' : 'application/octet-stream'
ContentTypeFor(to) ==
  IF to = <<"pdf">> THEN "application/pdf" ELSE "application/octet-stream"

\* the streamed response: status 200 and the two headers
FileResp(to, name) ==
  [NoResp EXCEPT !.status = 200, !.ctype = ContentTypeFor(to),
                 !.disp = buildContentDispositionAttachment(name, to),
                 !.kind = "file",
                 !.headers = {"content-type", "content-disposition"}]

\* the names of the headers an upload target may answer with, as it sends
\* them
UpstreamHeaderNames == {"ETag", "Set-Cookie", "content-type"}

\* key.toLowerCase()
toLowerCase(key) ==
  IF key = "ETag" THEN "etag"
  ELSE IF key = "Set-Cookie" THEN "set-cookie"
  ELSE key

\* uploadResp.headers.forEach: fetch holds header names in lower case
HeadersForEach(sent) == {toLowerCase(h) : h \in sent}

\* a filter that let every header through
AnyHeader(key) == TRUE

\* allowed.has(key.toLowerCase())
AllowedHeader(key) ==
  toLowerCase(key) \in {"content-type", "content-length", "location", "etag",
                        "last-modified", "content-disposition",
                        "cache-control"}

\* forwardedHeaders
ForwardedHeaders(sent) == {key \in HeadersForEach(sent) : AllowedHeader(key)}

\* the response of the upload target is passed on with its status and the
\* forwarded headers
UpstreamResp(status, sent) ==
  [NoResp EXCEPT !.status = status, !.ctype = "upstream",
                 !.kind = "upstream", !.headers = ForwardedHeaders(sent)]

\* the checks made before withTemp is entered
Validate(in) ==
  IF in.mode = "multipart"
  THEN IF ~in.hasInput THEN "Missing file field"
       ELSE IF ~in.hasTags THEN "Missing from or to fields"
       ELSE IF ~in.upload /\ ~in.download THEN "uploadUrl required"
       ELSE "ok"
  ELSE IF in.mode = "json"
  THEN IF ~in.hasInput THEN "Missing downloadUrl in JSON body"
       ELSE IF ~in.hasTags THEN "Missing from or to fields"
       ELSE "ok"
  ELSE "Content-Type must be multipart/form-data or application/json"

\* Math.ceil((2 * 1024 * 1024 * 1024) / (50_000_000 / 8) * 2 * 1000)
DEFAULT_TIMEOUT_MS == 687195

\* the ms of the deadline scope a step of the handler runs in, <<>> when the
\* step runs in none: the multipart branch stages with a bare
\* streamWebToFile(fileStream, inputPath)
StepDeadline(mode, step) ==
  IF mode = "multipart" /\ step = "staging" THEN <<>>
  ELSE <<DEFAULT_TIMEOUT_MS>>

\* the timer of the scope a step is entered with
StepTimer(mode, step) ==
  IF HasTimer(StepDeadline(mode, step)) THEN "armed" ELSE "none"

\* a step whose scope has timed out ends with the timeout error, any other
\* step ends in one of the other ways
EndsOf(outcomes, timedOut) ==
  IF timedOut THEN {o \in outcomes : o = "timeout"}
  ELSE {o \in outcomes : o # "timeout"}

\* how staging can end: streamWebToFile of the upload, or fetch(downloadUrl)
\* and streamWebToFile of its body under the download deadline
StageOutcomes(mode) ==
  IF mode = "multipart" THEN {"ok", "ioError"}
  ELSE {"ok", "notOk", "noBody", "ioError", "timeout"}

\* a download that did not look at the status of the answer
StagingAnyStatus(o) == o \in {"ok", "notOk"}

\* if (!resp.ok) throw ...; if (!body) throw ...
StagingOk(o) == o = "ok"

StageMessage(o) ==
  IF o = "notOk" THEN "FETCH_NOT_OK"
  ELSE IF o = "noBody" THEN "NO_BODY"
  ELSE IF o = "timeout" THEN "Operation timed out"
  ELSE "stream error"

\* if (!finalUploadUrl && !keepTempForStreaming) throw MISSING_UPLOAD_URL
MissingUploadUrl(in) == ~in.upload /\ ~in.download

\* the message of the error the scope around convertFile rejects with
ConvMessage(kind, timedOut) ==
  IF timedOut THEN "Operation timed out"
  ELSE IF kind = "noOutput" THEN "No output file produced"
  ELSE IF kind = "readFailed" THEN "Failed to read converted file"
  ELSE IF kind = "writeError" THEN "write error"
  ELSE "spawn error"

\* how the PUT to uploadUrl under its deadline can end
NoUpload == [k |-> "none", status |-> 0, sent |-> {}]
UploadOutcomes ==
  {[k |-> "resp", status |-> st, sent |-> hs] :
     st \in {200, 500}, hs \in SUBSET UpstreamHeaderNames}
  \cup {[k |-> "failed", status |-> 0, sent |-> {}],
        [k |-> "timeout", status |-> 0, sent |-> {}]}
\* the same, the target answering with all its headers
PlainUploads ==
  {o \in UploadOutcomes : o.k = "resp" => o.sent = UpstreamHeaderNames}

UploadMessage(o) ==
  IF o.k = "timeout" THEN "Operation timed out" ELSE "upload error"

\* the error field of the catch around withTemp
CatchError(mode) ==
  IF mode = "multipart" THEN "Failed to stream uploaded file to temp"
  ELSE "Failed to fetch/stream downloadUrl"

\* originalName: file.name || `converted.${to}`, or the last segment of the
\* URL path || `downloaded.${to}`
DefaultName(mode, name, to) ==
  IF name # <<>> THEN name
  ELSE <<IF mode = "multipart" THEN "converted" ELSE "downloaded", ".">>
       \o to

\* the bytes of the file the converter wrote
OutputBytes == <<"b1", "b2">>

\* what the read stream delivers: the file on 'end', less on 'error'
StreamedBytes(ev) ==
  IF ev = "end" THEN {OutputBytes}
  ELSE {SubSeq(OutputBytes, 1, n) : n \in 0..(Len(OutputBytes) - 1)}

\* cleanTempNow: if (tempForCleanup && !tempCleaned)
CleanTempNowRuns(hasTemp, cleaned) == hasTemp /\ ~cleaned

\* the catch around withTemp calls cleanTempNow in the multipart branch
CatchCleans(mode) == mode = "multipart"

InitSrv ==
  /\ rpc = [r \in Reqs |-> "idle"]
  /\ rIn = [r \in Reqs |-> NoInput]
  /\ resp = [r \in Reqs |-> NoResp]
  /\ tempCleaned = [r \in Reqs |-> FALSE]
  /\ sTimer = [r \in Reqs |-> "none"]
  /\ sTimedOut = [r \in Reqs |-> FALSE]
  /\ staged = [r \in Reqs |-> "none"]
  /\ uploaded = [r \in Reqs |-> NoUpload]
  /\ originalName = [r \in Reqs |-> <<>>]
  /\ streamEv = [r \in Reqs |-> "none"]

InitMetrics == metrics = [n \in MetricNames |-> 0]

\* an error thrown inside the withTemp callback: withTemp's finally, then
\* the catch of the branch answers 400 with the error's message
ThrowInTemp(r, msg) ==
  LET n1 == IF WithTempCleans(rIn[r].download) THEN 1 ELSE 0
      n2 == IF CatchCleans(rIn[r].mode)
               /\ CleanTempNowRuns(ws[r] # "none", tempCleaned[r])
            THEN 1 ELSE 0
  IN /\ cleanCalls' = [cleanCalls EXCEPT ![r] = @ + n1 + n2]
     /\ ws' = [ws EXCEPT ![r] = IF n1 + n2 > 0 THEN CleanDir(@) ELSE @]
     /\ tempCleaned' = [tempCleaned EXCEPT ![r] = @ \/ n2 = 1]
     /\ resp' = [resp EXCEPT ![r] = Resp(400, CatchError(rIn[r].mode), msg)]
     /\ rpc' = [rpc EXCEPT ![r] = "done"]

\* fetch(req): validation, then withTemp creates the workspace
ReqArrive(r, inputs) ==
  /\ rpc[r] = "idle"
  /\ \E in \in inputs :
       /\ rIn' = [rIn EXCEPT ![r] = in]
       /\ IF ~IsRouted(in.method, in.pathname)
          THEN /\ resp' = [resp EXCEPT ![r] = NotFound]
               /\ rpc' = [rpc EXCEPT ![r] = "done"]
               /\ metrics' = HandlerFinally(metrics)
               /\ UNCHANGED <<ws, sTimer>>
          ELSE IF Validate(in) = "ok"
          THEN /\ ws' = [ws EXCEPT ![r] = "exists"]
               /\ rpc' = [rpc EXCEPT ![r] = "staging"]
               /\ sTimer' = [sTimer EXCEPT ![r] =
                               StepTimer(in.mode, "staging")]
               /\ metrics' = CountedIn(metrics)
               /\ UNCHANGED resp
          ELSE /\ resp' = [resp EXCEPT ![r] = badRequest(Validate(in))]
               /\ rpc' = [rpc EXCEPT ![r] = "done"]
               /\ metrics' = HandlerFinally(CountedIn(metrics))
               /\ UNCHANGED <<ws, sTimer>>
  /\ UNCHANGED <<tempCleaned, sTimedOut, staged, uploaded,
                 originalName, streamEv, taskVars, scopeVars, childVars,
                 ioVars, cleanCalls, wtVars, utilVars>>

\* staging ended: streamWebToFile of the upload, or the download under its
\* deadline; then, in the JSON branch, the MISSING_UPLOAD_URL check; then
\* withTimeout(convertFile, conversionTimeout) is entered
StageEnd(r) ==
  /\ rpc[r] = "staging"
  /\ \E o \in EndsOf(StageOutcomes(rIn[r].mode), sTimedOut[r]) :
       /\ staged' = [staged EXCEPT ![r] = o]
       /\ IF StagingOk(o) /\ ~MissingUploadUrl(rIn[r])
          THEN /\ Enqueue(r, ServerOptions)
               /\ sTimer' = [sTimer EXCEPT ![r] =
                               StepTimer(rIn[r].mode, "converting")]
               /\ rpc' = [rpc EXCEPT ![r] = "converting"]
               /\ metrics' = gaugeInc(metrics, "conversions_in_flight")
               /\ UNCHANGED <<resp, tempCleaned, sTimedOut>>
          ELSE /\ ThrowInTemp(r, IF StagingOk(o) THEN "MISSING_UPLOAD_URL"
                                 ELSE StageMessage(o))
               /\ sTimer' = [sTimer EXCEPT ![r] = ClearTimer(@)]
               /\ metrics' = HandlerFinally(metrics)
               /\ UNCHANGED <<sTimedOut, taskVars, scopeVars,
                              childVars, ioVars>>
  /\ UNCHANGED <<rIn, uploaded, originalName, streamEv, wtVars, utilVars>>

\* the timer of the scope around the current step expires; the signal of
\* the scope around convertFile is the call's options.signal, the signal of
\* the other scopes is given to fetch and to streamWebToFile
SrvTimerFire(r) ==
  /\ sTimer[r] = "armed"
  /\ sTimer' = [sTimer EXCEPT ![r] = "fired"]
  /\ sTimedOut' = [sTimedOut EXCEPT ![r] = TRUE]
  /\ IF rpc[r] = "converting" THEN SignalAborts(r)
     ELSE UNCHANGED convVars
  /\ UNCHANGED <<rpc, rIn, resp, tempCleaned, staged, uploaded, originalName,
                 streamEv, wtVars, libVars>>

\* convertFile settled: the scope around it settles, and the callback goes
\* on to stream or to upload the output, or throws
ConvSettled(r, names) ==
  /\ rpc[r] = "converting"
  /\ tpc[r] = "done"
  \* the scope around convertFile is left; the PUT gets a scope of its own
  /\ LET puts == res[r].kind = "outputPath" /\ ~rIn[r].download
     IN /\ sTimer' = [sTimer EXCEPT ![r] =
                        IF puts THEN StepTimer(rIn[r].mode, "uploading")
                        ELSE ClearTimer(@)]
        /\ sTimedOut' = [sTimedOut EXCEPT ![r] = IF puts THEN FALSE ELSE @]
        \* the counters of the conversion; the handler returns unless it
        \* goes on to the PUT
        /\ LET left == ConversionLeft(metrics, res[r].kind = "outputPath")
           IN metrics' = IF puts THEN left ELSE HandlerFinally(left)
  /\ IF res[r].kind = "outputPath"
     THEN /\ \E n \in (IF rIn[r].mode = "multipart" THEN names
                       ELSE names \cap UrlNames) :
               LET name == DefaultName(rIn[r].mode, n, rIn[r].to)
               IN /\ originalName' = [originalName EXCEPT ![r] = name]
                  /\ resp' = [resp EXCEPT ![r] =
                                IF rIn[r].download
                                THEN FileResp(rIn[r].to, name) ELSE @]
          /\ rpc' = [rpc EXCEPT ![r] =
                       IF rIn[r].download THEN "streaming" ELSE "uploading"]
          \* returning the streamed Response leaves withTemp: its finally
          /\ LET leaves == rIn[r].download /\ WithTempCleans(rIn[r].download)
             IN /\ cleanCalls' = [cleanCalls EXCEPT ![r] =
                                    IF leaves THEN @ + 1 ELSE @]
                /\ ws' = [ws EXCEPT ![r] =
                            IF leaves THEN CleanDir(@) ELSE @]
          /\ UNCHANGED tempCleaned
     ELSE /\ ThrowInTemp(r, ConvMessage(res[r].kind, sTimedOut[r]))
          /\ UNCHANGED originalName
  /\ UNCHANGED <<rIn, staged, uploaded, streamEv, taskVars,
                 scopeVars, childVars, ioVars, wtVars, utilVars>>

\* the PUT to uploadUrl under its deadline ended: with a response of some
\* status, which is passed on, or with an error
UploadEnd(r, outcomes) ==
  /\ rpc[r] = "uploading"
  /\ sTimer' = [sTimer EXCEPT ![r] = ClearTimer(@)]
  /\ metrics' = HandlerFinally(metrics)
  /\ \E o \in {u \in outcomes : (u.k = "timeout") <=> sTimedOut[r]} :
       /\ uploaded' = [uploaded EXCEPT ![r] = o]
       /\ IF o.k # "resp"
          THEN ThrowInTemp(r, UploadMessage(o))
          ELSE /\ cleanCalls' = [cleanCalls EXCEPT ![r] =
                                   IF WithTempCleans(rIn[r].download)
                                   THEN @ + 1 ELSE @]
               /\ ws' = [ws EXCEPT ![r] =
                           IF WithTempCleans(rIn[r].download)
                           THEN CleanDir(@) ELSE @]
               /\ resp' = [resp EXCEPT ![r] = UpstreamResp(o.status, o.sent)]
               /\ rpc' = [rpc EXCEPT ![r] = "done"]
               /\ UNCHANGED tempCleaned
  /\ UNCHANGED <<rIn, sTimedOut, staged, originalName, streamEv,
                 taskVars, scopeVars, childVars, ioVars, wtVars, utilVars>>

\* the read stream behind the response emits 'end' or 'error': the bytes
\* read so far are the body, and the handler calls
\* temp.cleanFileOnTmpFolder()
StreamEnd(r) ==
  /\ rpc[r] = "streaming"
  /\ \E ev \in (IF outFile[r] /\ ws[r] = "exists"
                 THEN {"end", "error"} ELSE {"error"}) :
       /\ streamEv' = [streamEv EXCEPT ![r] = ev]
       /\ \E bytes \in StreamedBytes(ev) :
            resp' = [resp EXCEPT ![r].content = bytes]
  /\ cleanCalls' = [cleanCalls EXCEPT ![r] = @ + 1]
  /\ ws' = [ws EXCEPT ![r] = CleanDir(@)]
  /\ rpc' = [rpc EXCEPT ![r] = "done"]
  /\ UNCHANGED <<rIn, tempCleaned, sTimer, sTimedOut, staged, uploaded,
                 originalName, taskVars, scopeVars, childVars, ioVars,
                 wtVars, libVars>>

\* the steps of request r
ReqSteps(r, inputs, names, uploads) ==
  \/ ReqArrive(r, inputs)
  \/ StageEnd(r)
  \/ SrvTimerFire(r)
  \/ ConvSettled(r, names)
  \/ UploadEnd(r, uploads)
  \/ StreamEnd(r)
  \/ ChildExit(r, ServerEnd)

\* requests to POST /process; the handler passes a ready workspace and a
\* path, so every child is spawned in the turn that obtains the slot
Next ==
  \/ \E r \in Reqs : ReqSteps(r, PlainInputs, NoName, PlainUploads)
  \/ ConvSteps

\* one request, with every to tag and every file name
NextReq ==
  \/ ReqSteps(1, ReqInputs, Names, UploadOutcomes)
  \/ ConvSteps

\* ---------------------------------------------------------- specifications
\* the server is up and no request, no conversion and no scope is under way
Init == IdleWT /\ InitConv /\ InitSrv /\ InitLib /\ InitMetrics
\* a chain of withTimeout calls is about to be made
InitScopes == InitWT /\ InitConv /\ InitSrv /\ InitLib /\ InitMetrics

NextWT ==
  \/ WtInvoke
  \/ ExtAbort
  \/ \E w \in Scopes : WtTimerFire(w)
  \/ OpSettleSelf
  \/ OpReactAbort

SpecWT == InitScopes /\ [][NextWT]_vars

\* timers fire and a cooperating operation reacts; nothing makes the
\* external signal abort or the operation complete on its own
FairSpecWT ==
  /\ SpecWT
  /\ \A w \in Scopes : WF_vars(WtTimerFire(w))
  /\ WF_vars(OpReactAbort)

Spec == Init /\ [][Next]_vars

SpecReq == Init /\ [][NextReq]_vars

SpecConv == Init /\ [][NextConv]_vars

SpecLimit == Init /\ [][NextLimit]_vars

SpecQueue == Init /\ [][NextQueue]_vars

\* calls of buildContentDispositionAttachment
SpecName == Init /\ [][BuildHeader]_vars

\* one call of streamWebToFile
SpecStream == Init /\ [][NextStream]_vars

\* FileTemp objects, initialised and cleaned in any order
SpecTemp == Init /\ [][NextTemp]_vars

\* one call of withTemp
SpecWithTemp == Init /\ [][NextWithTemp]_vars

\* a process that was sent SIGKILL ends
KillEnd == {e \in AnyEnd : e.status.signal = "SIGKILL"}

\* the limiter starts waiting calls, I/O completes, timers fire, a closed
\* child is noticed and a killed process ends; nothing makes a process end
\* on its own or obey SIGTERM
FairSpecLimit ==
  /\ SpecLimit
  /\ WF_vars(LimitStart)
  /\ \A t \in Tasks :
       /\ WF_vars(TaskSpawn(t))
       /\ WF_vars(ConvTimerFire(t))
       /\ WF_vars(GraceFire(t))
       /\ WF_vars(ChildExit(t, KillEnd))
       /\ WF_vars(ChildClose(t))
       /\ WF_vars(TaskFinish(t))

\* ------------------------------------------------------------------ claims
Alive == {t \in Tasks : child[t] = "alive"}
Spawned(t) == child[t] # "none"

\* C1: once a request to POST /process has fully completed (its response
\* returned and, for a streamed response, the stream ended or failed), its
\* workspace directory no longer exists, on every exit path.
C1_NoWorkspaceSurvives ==
  \A r \in Reqs : rpc[r] = "done" => ws[r] # "exists"

\* C2: cleanFileOnTmpFolder is invoked at most once on every workspace.
C2_DestroyedAtMostOnce ==
  \A t \in Tasks : cleanCalls[t] <= 1

\* C3: at every moment at most CONCURRENCY_LIMIT child processes spawned by
\* convertFile are alive.
C3_AtMostLimitAlive ==
  Cardinality(Alive) <= CONCURRENCY_LIMIT

\* C3 witness: every slot holds a live child while a further call waits.
C3_Witness ==
  Cardinality(Alive) = CONCURRENCY_LIMIT /\ queue # <<>>

\* C4: once the scope around a running child was cancelled the child has
\* been sent SIGTERM, and a child still running when the grace timer has
\* fired has been sent SIGKILL.
C4_KillEscalation ==
  \A t \in Tasks :
    /\ grace[t] # "none" /\ child[t] = "alive" => "SIGTERM" \in sigSent[t]
    /\ grace[t] = "fired" /\ child[t] = "alive" => "SIGKILL" \in sigSent[t]

\* C4, first half alone: a cancelled running child has been sent SIGTERM.
C4_TermSent ==
  \A t \in Tasks :
    grace[t] # "none" /\ child[t] = "alive" => "SIGTERM" \in sigSent[t]

\* C7: every convertFile call under a deadline that holds a limiter slot
\* eventually releases it, and every queued call eventually starts,
\* whatever the child processes do.
C7_SlotsEventuallyReleased ==
  \A t \in Tasks :
    (tpc[t] \in InSlot \cup {"queued"} /\ tOpt[t].hasMs) ~> (tpc[t] = "done")

\* C8: of two calls that both found every slot busy, the earlier one's child
\* is spawned no later than the later one's.
C8_SpawnedInCallOrder ==
  \A a, b \in Tasks :
    a < b /\ waited[a] /\ waited[b] /\ Spawned(b)
      => Spawned(a) \/ tpc[a] = "done"

\* C8 as amended: calls obtain their limiter slots in the order in which
\* they were made.
C8_SlotsInCallOrder ==
  \A a, b \in Tasks :
    a < b /\ tpc[b] \notin {"idle", "queued"}
      => tpc[a] \notin {"idle", "queued"}

\* C8 witness: two calls that both found every slot busy hold slots.
C8_Witness ==
  \E a, b \in Tasks :
    /\ a < b /\ waited[a] /\ waited[b]
    /\ tpc[a] \in InSlot /\ tpc[b] \in InSlot

\* C9: after the child exited, convertFile succeeds exactly when the output
\* file exists and can be read, whatever the exit code, the terminating
\* signal and the stderr text: {outputPath} with keepTemp, else
\* {convertedFile} unless reading the file fails.
C9_OutcomeDependsOnOutputFile ==
  \A t \in Tasks :
    tpc[t] = "done" /\ child[t] = "closed" =>
      IF outFile[t]
      THEN IF tOpt[t].keepTemp THEN res[t].kind = "outputPath"
           ELSE res[t].kind \in {"convertedFile", "readFailed"}
      ELSE res[t].kind = "noOutput"

\* C9 witness: a child that exited with code 1 and wrote to stderr, and a
\* call that succeeded.
C9_Witness ==
  \E t \in Tasks :
    /\ tpc[t] = "done" /\ outFile[t]
    /\ exitInfo[t].code = "1" /\ captured[t].err # <<>>
    /\ res[t].kind = "convertedFile"

RECURSIVE DecodedInOrder(_)
\* the texts of a sequence of chunks, each decoded by itself, in order
DecodedInOrder(chunks) ==
  IF chunks = <<>> THEN <<>>
  ELSE ChunkToString(Head(chunks)) \o DecodedInOrder(Tail(chunks))

\* C10: when the child exited and the output file does not exist, the call
\* fails, and the failure carries the texts of the stderr chunks and of the
\* stdout chunks, each concatenated in arrival order, with the exit code
\* and the terminating signal of the child.
C10_FailureCarriesCapturedText ==
  \A t \in Tasks :
    /\ tpc[t] = "done" /\ child[t] = "closed" /\ ~outFile[t]
         => res[t].kind = "noOutput"
    /\ res[t].kind = "noOutput" =>
         /\ res[t].stderr = DecodedInOrder(arrived[t].err)
         /\ res[t].stdout = DecodedInOrder(arrived[t].out)
         /\ res[t].code = childStatus[t].code
         /\ res[t].signal = childStatus[t].signal

\* C10 witness: a failed call whose child wrote two chunks to stderr and
\* exited with code 1 without an output file.
C10_Witness ==
  \E t \in Tasks :
    /\ res[t].kind = "noOutput" /\ Len(arrived[t].err) = 2
    /\ res[t].stderr # <<>> /\ res[t].code = "1"

\* a request that lacks a format tag, its input, or both ways of output
Incomplete(in) ==
  /\ in.mode \in {"multipart", "json"}
  /\ ~in.hasInput \/ ~in.hasTags \/ (~in.upload /\ ~in.download)

ClientError == 400..499

\* C11: a request that lacks a format tag, its input, or both the download
\* flag and an uploadUrl is answered with a 4xx at once: no workspace is
\* ever created for it, nothing is staged and no child is spawned.
C11_ValidationBeforeStaging ==
  \A r \in Reqs :
    rpc[r] # "idle" /\ Incomplete(rIn[r]) =>
      /\ rpc[r] = "done" /\ resp[r].status \in ClientError
      /\ ws[r] = "none" /\ staged[r] = "none" /\ child[r] = "none"

\* C12: in JSON mode a download answered with a non-success status or
\* without a body ends the request with a 4xx, and no converter process is
\* ever spawned for it.
C12_FailedDownloadIsStagingError ==
  \A r \in Reqs :
    rIn[r].mode = "json" /\ staged[r] \in {"notOk", "noBody"} =>
      /\ rpc[r] = "done" /\ resp[r].status \in ClientError
      /\ tpc[r] = "idle" /\ child[r] = "none"

\* C12 witness: a JSON request with an uploadUrl whose download was
\* answered with a non-success status, answered 400.
C12_Witness ==
  \E r \in Reqs :
    /\ rIn[r].mode = "json" /\ rIn[r].upload /\ staged[r] = "notOk"
    /\ rpc[r] = "done" /\ resp[r].status = 400

\* C13: when the PUT to uploadUrl failed or was answered with a non-success
\* status, the caller receives a 502 and the workspace is destroyed.
C13_UploadFailureIs502 ==
  \A r \in Reqs :
    /\ rpc[r] = "done" /\ uploaded[r].k # "none"
    /\ ~(uploaded[r].k = "resp" /\ uploaded[r].status \in 200..299)
    => resp[r].status = 502 /\ ws[r] # "exists"

\* C14: when the converter left no output file (or the file could not be
\* read), the response is a 500 whose JSON body includes the captured stdout
\* or stderr.
C14_ConversionFailureIs500 ==
  \A r \in Reqs :
    rpc[r] = "done" /\ res[r].kind \in {"noOutput", "readFailed"} =>
      /\ resp[r].status = 500 /\ resp[r].kind = "json"
      /\ resp[r].keys \cap {"stdout", "stderr"} # {}

\* C15: a multipart request with to=pdf and ?download whose conversion
\* produced the output file is answered 200 with Content-Type
\* application/pdf and a Content-Disposition whose filename ends in .pdf;
\* once the read stream ended, the body is the bytes of the output file.
C15_DownloadStreamsThePdf ==
  \A r \in Reqs :
    /\ rIn[r].mode = "multipart" /\ rIn[r].download /\ rIn[r].to = <<"pdf">>
    /\ res[r].kind = "outputPath" /\ rpc[r] \in {"streaming", "done"}
    => /\ resp[r].status = 200
       /\ resp[r].ctype = "application/pdf"
       /\ EndsWith(resp[r].disp.filename, <<".", "pdf">>)
       /\ EndsWith(resp[r].disp.filenameStar, <<".", "pdf">>)
       /\ streamEv[r] = "end" =>
            resp[r].content = OutputBytes /\ resp[r].content # <<>>

\* C15 witness: the upload a.a converted to pdf and streamed to its end.
C15_Witness ==
  \E r \in Reqs :
    /\ rIn[r].mode = "multipart" /\ rIn[r].download /\ rIn[r].to = <<"pdf">>
    /\ originalName[r] = <<"a", ".", "a">>
    /\ resp[r].disp.filename = <<"a", ".", "pdf">>
    /\ rpc[r] = "done" /\ streamEv[r] = "end"

\* C16: the limiter slot of a request is released only after its child has
\* fully exited, and it is released before the output is streamed or
\* uploaded.
C16_SlotReleasedBeforeDispatch ==
  \A r \in Reqs :
    /\ tpc[r] = "done" => child[r] \in {"none", "closed"}
    /\ rpc[r] \in {"uploading", "streaming"} =>
         tpc[r] \notin InSlot \cup {"queued"} /\ child[r] = "closed"

\* C16 witness: an upload under way after a child that had been sent
\* SIGTERM closed, with no slot taken.
C16_Witness ==
  \E r \in Reqs :
    /\ rpc[r] = "uploading" /\ child[r] = "closed" /\ Active = 0
    /\ "SIGTERM" \in sigSent[r]

\* C17: a request holds its limiter slot, or has held it, whenever its
\* workspace has been created.
C17_SlotBeforeWorkspace ==
  \A r \in Reqs :
    ws[r] # "none" => tpc[r] \in InSlot \cup {"done"}

\* C22: each request goes through staging, converting, dispatch and cleanup
\* in this order: no converter process is spawned for it before its input
\* was staged, the output is not streamed or uploaded before the converter
\* process has ended and its call has settled, and the workspace is not
\* destroyed before the request is over, dispatch included.
C22_StagesInOrder ==
  \A r \in Reqs :
    /\ Spawned(r) => staged[r] = "ok"
    /\ rpc[r] \in {"uploading", "streaming"}
         => tpc[r] = "done" /\ child[r] = "closed"
    /\ streamEv[r] # "none" \/ uploaded[r] # NoUpload
         => tpc[r] = "done" /\ child[r] = "closed"
    /\ ws[r] = "gone" => rpc[r] = "done"

\* a request whose output is being dispatched from its workspace
C22_Witness ==
  \E r \in Reqs :
    rpc[r] = "uploading" /\ staged[r] = "ok" /\ ws[r] = "exists"

\* C23: while the output of a request with ?download is streamed, the
\* response has begun and the workspace exists and was not asked to be
\* destroyed; it is destroyed when the read stream ends or fails.
C23_WorkspaceOutlivesHandler ==
  \A r \in Reqs :
    /\ rpc[r] = "streaming"
         => ws[r] = "exists" /\ cleanCalls[r] = 0 /\ resp[r].status = 200
    /\ streamEv[r] # "none" => ws[r] = "gone" /\ cleanCalls[r] = 1

\* the response was returned and the stream has not ended
C23_Witness ==
  \E r \in Reqs :
    rpc[r] = "streaming" /\ tpc[r] = "done" /\ resp[r].kind = "file"

\* C24: a request that forwards its output holds its workspace while the
\* PUT is under way; when the PUT has ended, with a response or with an
\* error, the workspace is destroyed by the time the response is returned.
C24_UploadThenDestroy ==
  \A r \in Reqs :
    /\ rpc[r] = "uploading" => ws[r] = "exists" /\ ~rIn[r].download
    /\ uploaded[r] # NoUpload
         => rpc[r] = "done" /\ ws[r] = "gone" /\ resp[r].status # 0

\* the PUT was answered and the response of the target was passed on
C24_Witness ==
  \E r \in Reqs :
    uploaded[r].k = "resp" /\ resp[r].kind = "upstream" /\ ws[r] = "gone"

\* C25: the headers of a response passed on from the upload target are
\* headers the target sent whose lower-cased name is on the allow-list, every
\* such header is passed on, and the status is the target's status.
C25_OnlyAllowedHeadersForwarded ==
  \A r \in Reqs :
    resp[r].kind = "upstream"
      => /\ resp[r].status = uploaded[r].status
         /\ resp[r].headers =
              {toLowerCase(h) : h \in uploaded[r].sent}
                \cap {"content-type", "content-length", "location", "etag",
                      "last-modified", "content-disposition", "cache-control"}

\* the target sent an allowed header in mixed case and one that is not
\* allowed
C25_Witness ==
  \E r \in Reqs :
    /\ resp[r].kind = "upstream"
    /\ uploaded[r].sent = {"ETag", "Set-Cookie"}
    /\ resp[r].headers = {"etag"}

\* C26: cleanFileOnTmpFolder never raises, whether the directory was never
\* created, is already gone or cannot be removed, and after a call a further
\* call changes nothing.
C26_CleanIsIdempotentAndSilent ==
  /\ [](\A t \in Temps : ~temps[t].raised)
  /\ [][\A t \in Temps :
          temps'[t].calls > temps[t].calls
            => LET again == cleanFileOnTmpFolder(temps'[t])
               IN /\ again.dir = temps'[t].dir
                  /\ again.tempDir = temps'[t].tempDir
                  /\ ~again.raised]_vars

\* one directory removed by the first of several calls, another that
\* cannot be removed and was asked to be more than once
C26_Witness ==
  \E t, u \in Temps :
    /\ temps[t].calls >= 2 /\ temps[t].dir = "gone"
    /\ temps[u].calls >= 2 /\ temps[u].dir = "exists"
    /\ ~temps[u].removable

\* C27: when streamWebToFile completes without error, the file holds
\* exactly the bytes of the source, in order, whatever the chunks they came
\* in and whatever the file held before.
C27_FileHoldsTheSourceBytes ==
  xfer.pc = "done"
    => xfer.file = Concat(xfer.original) /\ xfer.err = "none"

\* two chunks were written over a file that was not empty
C27_Witness ==
  /\ xfer.pc = "done"
  /\ Len(xfer.original) = 2
  /\ xfer.old # <<>>

\* C28: if the signal given to streamWebToFile aborts while the transfer
\* is under way, the call fails with an AbortError, the write stream is
\* destroyed and nothing more is written to the file.
C28_AbortCutsTheTransfer ==
  /\ [](xfer.cut
          => xfer.pc = "failed" /\ xfer.err = "AbortError" /\ xfer.closed)
  /\ [][xfer.cut => xfer'.file = xfer.file]_vars

\* aborted after the first chunk was written and before the second
C28_Witness ==
  /\ xfer.cut
  /\ xfer.file # <<>>
  /\ xfer.file # Concat(xfer.original)

\* %XX back to the sign it stands for
UriDecodeSign(c) == IF c = "%20" THEN " " ELSE IF c = "%22" THEN "q"
                    ELSE IF c = "%2F" THEN "/" ELSE c

\* C30: for every original name and every target format string, the quoted
\* filename holds no control or problematic sign (here the double quote "q"
\* and the slash), its base part is at most maxBaseLength signs long, and
\* filename* is the percent-encoding of the same name.
C30_HeaderFilenameIsSafe ==
  built.k = "built"
    => /\ \A i \in 1..Len(built.filename) :
            built.filename[i] \notin {"q", "/"}
       /\ LET tail == IF CleanExt(built.ext) = <<>> THEN 0
                      ELSE 1 + Len(CleanExt(built.ext))
          IN Len(built.filename) - tail <= built.max
       /\ [i \in 1..Len(built.filenameStar) |->
             UriDecodeSign(built.filenameStar[i])] = built.filename

\* the same for target format strings that hold no problematic sign
C30_SafeForPlainFormats ==
  (\A i \in 1..Len(built.ext) : built.ext[i] \notin {"q", "/"})
    => C30_HeaderFilenameIsSafe

\* C29: staging, conversion and forward-upload of every request each run
\* inside a deadline scope of DEFAULT_TIMEOUT_MS whose timer is set.
C29_EveryStepHasADeadline ==
  \A r \in Reqs :
    rpc[r] \in {"staging", "converting", "uploading"}
      => /\ StepDeadline(rIn[r].mode, rpc[r]) = <<DEFAULT_TIMEOUT_MS>>
         /\ sTimer[r] \in {"armed", "fired"}

\* C32: a process that ends while the grace timer runs cancels it; a signal
\* is sent only to a running process whose scope was cancelled, so none is
\* sent after the process ended and none to a process whose scope never
\* was cancelled.
C32_NoSignalAfterExit ==
  /\ [](\A t \in Tasks : ~cAborted[t] => sigSent[t] = {})
  /\ [][\A t \in Tasks :
          /\ child[t] = "alive" /\ child'[t] = "exited" /\ grace[t] = "armed"
               => grace'[t] = "cleared"
          /\ sigSent'[t] # sigSent[t]
               => child[t] = "alive" /\ cAborted'[t]]_vars

\* the process ended after SIGTERM, while the grace timer ran
C32_Witness ==
  \E t \in Tasks :
    /\ child[t] \in {"exited", "closed"}
    /\ sigSent[t] = {"SIGTERM"}
    /\ grace[t] = "cleared"

\* C33: a call fails with its timeout error only if its own timer fired; a
\* call without a positive duration has no timer and never times out, and a
\* call whose timer did not fire settles with what its operation settled
\* with, also when its parent signal aborted.
C33_TimeoutOnlyByOwnTimer ==
  \A w \in Scopes :
    /\ ~HasTimer(wMs[w]) => ~wTimedOut[w] /\ wTimer[w] = "none"
    /\ wpc[w] = "settled"
         => /\ wOutcome[w] = TimeoutError(w) => wTimedOut[w]
            /\ ~wTimedOut[w]
                 => IF w = NumScopes
                    THEN wOutcome[w] \in {Value, OwnError, AbortError}
                    ELSE wOutcome[w] = wOutcome[w + 1]

\* the parent aborted a call that has no duration, and the operation's
\* rejection surfaced
C33_Witness ==
  /\ wpc[1] = "settled"
  /\ extSignal = "aborted"
  /\ ~HasTimer(wMs[1])
  /\ wOutcome[1] = AbortError

\* C34: a converter process that runs under a cancelled scope has been sent
\* SIGTERM, also when the caller's signal was aborted before the process
\* was spawned.
C34_CancelledScopeSignalsChild ==
  \A t \in Tasks :
    child[t] = "alive" /\ cAborted[t] => "SIGTERM" \in sigSent[t]

\* C35: the Content-Type of a streamed response is chosen from the to tag
\* without its leading dot, so that to = ".pdf" is answered like to = "pdf".
C35_ContentTypeFromNormalizedTag ==
  \A r \in Reqs :
    resp[r].kind = "file"
      => resp[r].ctype = ContentTypeFor(CleanExt(rIn[r].to))

\* the stages of request r that read or write its workspace: staging, the
\* converter process and the check for its output, upload and streaming
UsesWorkspace(r) ==
  \/ rpc[r] \in {"staging", "uploading", "streaming"}
  \/ child[r] = "alive"
  \/ tpc[r] \in {"running", "check"}

C37_KeepTempDecidesCleanup ==
  /\ [](\A t \in Tasks :
          /\ tOpt[t].keepTemp => cleanCalls[t] = 0 /\ ws[t] # "gone"
          /\ tpc[t] = "done"
               => IF tOpt[t].keepTemp
                  THEN res[t].kind = "outputPath" <=> outFile[t]
                  ELSE ws[t] = "gone" /\ cleanCalls[t] = 1
                       /\ res[t].kind # "outputPath")
  /\ [][\A t \in Tasks :
          tpc'[t] = "done" /\ tpc[t] # "done"
            /\ res'[t].kind = "convertedFile"
            => outFile[t] /\ ws[t] = "exists" /\ ws'[t] = "gone"]_vars

\* the file was read and the workspace destroyed
C37_Witness ==
  \E t \in Tasks :
    /\ tpc[t] = "done"
    /\ ~tOpt[t].keepTemp
    /\ res[t].kind = "convertedFile"
    /\ ws[t] = "gone"

\* C40: when fn returns or throws, withTemp asks for the workspace to be
\* destroyed exactly if keepTemp is not set, whether it constructed the
\* FileTemp or was given it; with keepTemp it leaves the workspace as it is.
C40_WithTempCleansUnlessKept ==
  [][\A t \in Temps :
       temps[t].wt = "callback" /\ temps'[t].wt = "left"
         => IF temps[t].keep
            THEN /\ temps'[t].calls = temps[t].calls
                 /\ temps'[t].dir = temps[t].dir
            ELSE /\ temps'[t].calls = temps[t].calls + 1
                 /\ temps[t].removable => temps'[t].dir = "gone"]_vars

\* fn threw on a FileTemp that was passed in, and the workspace went
C40_Witness ==
  \E t \in Temps :
    /\ temps[t].wt = "left"
    /\ temps[t].passed /\ temps[t].cbThrew /\ ~temps[t].keep
    /\ temps[t].calls = 1
    /\ temps[t].dir = "gone"

\* C31: POST /convert with a multipart body of file, from and to is the
\* conversion endpoint: such a request is routed to the conversion and is
\* not answered 404.
C31_ConvertIsTheEndpoint ==
  \A r \in Reqs :
    /\ rpc[r] = "done"
    /\ rIn[r].method = "POST" /\ rIn[r].pathname = "/convert"
    /\ rIn[r].mode = "multipart" /\ rIn[r].hasInput /\ rIn[r].hasTags
    => resp[r].status # 404

\* the requests whose handler has not returned
BeingHandled == {r \in Reqs : rpc[r] \in {"staging", "converting", "uploading"}}

\* C38: the api_requests_in_flight gauge equals the number of requests
\* being handled, whatever mix of requests arrived, the ones answered 404
\* included; so it is never negative and is zero when none is handled.
C38_InFlightGaugeBalanced ==
  metrics["api_requests_in_flight"] = Cardinality(BeingHandled)

\* the requests whose conversion attempt has ended
Attempted == {r \in Reqs : /\ rpc[r] \in {"uploading", "streaming", "done"}
                           /\ tpc[r] = "done"}

\* C39: every conversion attempt increments exactly one of
\* conversion_success_total and conversion_failure_total, the first exactly
\* if convertFile under its deadline returned, and conversions_in_flight is
\* incremented when the attempt begins and decremented when it ends.
C39_OneCounterPerAttempt ==
  /\ [](/\ metrics["conversions_in_flight"]
            = Cardinality({r \in Reqs : rpc[r] = "converting"})
        /\ metrics["conversion_success_total"]
            = Cardinality({r \in Attempted : res[r].kind = "outputPath"})
        /\ metrics["conversion_failure_total"]
            = Cardinality({r \in Attempted : res[r].kind # "outputPath"}))
  /\ [][\A r \in Reqs :
         rpc[r] = "converting" /\ rpc'[r] # "converting"
           => /\ metrics'["conversions_in_flight"]
                 = metrics["conversions_in_flight"] - 1
              /\ metrics'["conversion_success_total"]
                 + metrics'["conversion_failure_total"]
                 = metrics["conversion_success_total"]
                   + metrics["conversion_failure_total"] + 1
              /\ metrics'["conversion_success_total"]
                   = metrics["conversion_success_total"] + 1
                 <=> res[r].kind = "outputPath"]_vars

\* a conversion that failed was counted as a failure and left the gauge
C39_Witness ==
  \E r \in Reqs :
    /\ rpc[r] = "done" /\ resp[r].status = 400
    /\ r \in Attempted /\ res[r].kind = "noOutput"
    /\ metrics["conversion_failure_total"] = 1
    /\ metrics["conversion_success_total"] = 0
    /\ metrics["conversions_in_flight"] = 0

\* C21: a call whose signal was aborted through its parent signal, not by
\* its own timer, and whose operation rejects with the reason of the signal
\* it was given, fails with the reason the parent was aborted with.
C21_ParentReasonSurfaces ==
  wpc[1] = "settled" /\ wAborted[1] /\ ~wTimedOut[1]
    /\ opKind = "reject" /\ ~opSelf
    => wOutcome[1] = ParentReason

ParentAborted(w) ==
  IF w = 1 THEN extSignal = "aborted" ELSE wAborted[w - 1]

\* C18: the signal of an active scope is aborted whenever its parent signal
\* is, and the expiry of a scope's own timer leaves the signals of the
\* scopes around it and the external signal as they were.
C18_CancellationFlowsDownOnly ==
  /\ [](\A w \in Scopes :
          wpc[w] = "active" /\ ParentAborted(w) => wAborted[w])
  /\ [][\A w \in Scopes :
          wTimedOut'[w] /\ ~wTimedOut[w] =>
            /\ extSignal' = extSignal
            /\ \A u \in 1..(w - 1) : wAborted'[u] = wAborted[u]]_vars

\* C18 witness: the inner scope timed out and is aborted, the scope around
\* it and the external signal are not; and a later external abort reached
\* both.
C18_Witness ==
  \/ /\ wpc[NumScopes] = "active" /\ wTimedOut[NumScopes]
     /\ wAborted[NumScopes] /\ ~wAborted[1] /\ extSignal = "live"
  \/ /\ wpc[NumScopes] = "active" /\ extSignal = "aborted"
     /\ ~opSawAbort /\ wAborted[NumScopes]

\* C19: a call made with an aborted parent signal has its signal aborted
\* when the operation is invoked: the operation's first step sees
\* signal.aborted.
C19_PreAbortedParent ==
  [][wpc[1] = "idle" /\ wpc'[1] = "active" /\ extSignal = "aborted" =>
       opSawAbort' /\ \A w \in Scopes : wAborted'[w]]_vars

\* C19 witness: an operation started under an aborted external signal.
C19_Witness ==
  wpc[NumScopes] = "active" /\ opSawAbort /\ extSignal = "aborted"

\* C20: a settled call has no timer running and no subscription to its
\* parent signal, and nothing changes its signal, its timedOut flag or its
\* outcome afterwards.
C20_SettledScopeIsInert ==
  /\ [](\A w \in Scopes :
          wpc[w] = "settled" => wTimer[w] # "armed" /\ ~wSub[w])
  /\ [][\A w \in Scopes :
          wpc[w] = "settled" =>
            /\ wAborted'[w] = wAborted[w]
            /\ wTimedOut'[w] = wTimedOut[w]
            /\ wTimer'[w] = wTimer[w]
            /\ wOutcome'[w] = wOutcome[w]]_vars

\* C20 witness: the external signal aborted after a call with a timer had
\* settled, and the call's signal is not aborted.
C20_Witness ==
  /\ wpc[1] = "settled" /\ wTimer[1] = "cleared"
  /\ extSignal = "aborted" /\ ~wAborted[1]

\* C5: whenever the scope's own timer expired before the wrapped operation
\* settled, the withTimeout call fails with the timeout error, however the
\* operation itself then ends.
C5_TimedOutCallFailsWithTimeout ==
  \A w \in Scopes :
    wpc[w] = "settled" /\ wTimedOut[w] => wOutcome[w] = TimeoutError(w)

\* C6: a call withTimeout(operation, D) with D > 0, no parent cancellation
\* and an operation that never completes on its own eventually settles, and
\* it settles with the timeout error.
C6_NeverEndingOperationTimesOut ==
  ( /\ wpc[NumScopes] = "active"
    /\ HasTimer(wMs[NumScopes])
    /\ ~opSelf
    /\ extSignal = "none"
    /\ \A u \in Scopes : u # NumScopes => ~HasTimer(wMs[u]) )
  ~> ( /\ wpc[NumScopes] = "settled"
       /\ wOutcome[NumScopes] = TimeoutError(NumScopes) )

====
